---- MODULE Spec2Model ----
(***************************************************************************)
(* The pharmacy back end as a state machine: the inventory batches         *)
(* (InventoryItem rows), the POS sales with their items and payments, and  *)
(* the bulk orders with their status log.  Every action is one request     *)
(* handler of src/pos/views.py, src/inventory/views/stock_entry_views.py   *)
(* or one serializer method of src/inventory/serializers.py.               *)
(*                                                                         *)
(* Money is kept in integer hundredths.  A batch id is its index in        *)
(* batches, which is also its creation order (created_at).                 *)
(*                                                                         *)
(* Five specifications share the handlers: Spec (receipts and the sale     *)
(* workflow as far as it moves stock), SpecFifo (the allocation endpoints  *)
(* and FIFO sales on a stock of three batches), SpecMoney (amounts and     *)
(* payments), SpecBulk (bulk orders) and SpecRace (sale requests that run  *)
(* at the same time, statement by statement).                              *)
(***************************************************************************)
EXTENDS Integers, Sequences, FiniteSets, TLC

VARIABLES batches, sales, orders, nulls_last, last, requests

vars == <<batches, sales, orders, nulls_last, last, requests>>

----------------------------------------------------------------------------
(* Bounds of the model. *)

\* Most batches the stock specification receives.
MaxBatches == 2
\* Largest quantity of a receipt, of a cart line and of a batch.
MaxQty == 2
\* Most sales that exist at one time.
MaxSales == 1
\* Batches in stock at the start of the allocation specification.
FifoBatches == 3
\* Most Payment rows of a sale when a credit payment is made.
MaxPayments == 2
\* Most bulk orders.
MaxOrders == 1

\* Sale requests in flight at once.
MaxRequests == 2

\* expiry_date NULL, and a key that is absent from a request body.
Null == 0

Products == {1, 2}
Branches == {1}
ExpiryDates == {1, 2}

\* request.user: the identity the session supplies.
Users == {[organization_id |-> 1, branch_id |-> 1, is_staff |-> s] : s \in BOOLEAN}

Cashiers == {u \in Users : ~u.is_staff}

----------------------------------------------------------------------------
(* Helpers. *)

Min(a, b) == IF a < b THEN a ELSE b

Max(a, b) == IF a > b THEN a ELSE b

RECURSIVE SumSeq(_)
SumSeq(s) == IF s = <<>> THEN 0 ELSE Head(s) + SumSeq(Tail(s))

\* S as a sequence in the strict total order before, a set of pairs.
Ordered(S, before) == [k \in 1..Cardinality(S) |-> CHOOSE i \in S : Cardinality({j \in S : <<j, i>> \in before}) = k - 1]

\* The last request and its response: the handler, the quantity an allocation
\* request asked for, the sale the URL or the body names and the amount of a
\* credit payment, the HTTP status, the error (its message, with the figures
\* it carries), and the allocation lines and total of an allocation response.
Response(op, status, error, allocations, total) == [op |-> op, quantity |-> 0, sale_id |-> Null, amount |-> 0, status |-> status, error |-> error, allocations |-> allocations, total |-> total]

Asked(quantity, response) == [response EXCEPT !.quantity = quantity]

OnSale(sale_id, response) == [response EXCEPT !.sale_id = sale_id]

Paying(amount, response) == [response EXCEPT !.amount = amount]

Plain(op, status) == Response(op, status, <<>>, <<>>, 0)

Refusal(op, error) == Response(op, 400, error, <<>>, 0)

InvalidRequest == <<"Invalid medicine_id or quantity">>

NoStock == <<"No stock available for this medicine">>

Insufficient(available, requested) == <<"Insufficient stock", available, requested>>

\* The requests in flight, for the specification that interleaves them; the
\* other specifications run one request at a time and keep none.
NoneInFlight == <<>>

NoRequest == Plain("none", 0)

\* A handler without the transaction: what it wrote before the exception stays.
NoRollback(ok, written, before) == written

\* "with transaction.atomic()": what the block wrote is kept only if no
\* exception left the block.
Atomic(ok, written, before) == IF ok THEN written ELSE before

----------------------------------------------------------------------------
(* Inventory batches. *)

\* The quantity column of InventoryItem holds a non-negative integer: the
\* database refuses a row with a negative quantity.
QuantityColumnAccepts(q) == q >= 0

InventoryItem(product, branch, org, quantity, expiry) == [product |-> product, branch |-> branch, organization_id |-> org, quantity |-> quantity, expiry_date |-> expiry, is_active |-> TRUE]

BatchIds(bs) == 1..Len(bs)

\* order_by('expiry_date', 'created_at'): ascending expiry, NULLs where the
\* database puts them, then creation order.
ExpiryBefore(bs, i, j) == IF bs[i].expiry_date = Null \/ bs[j].expiry_date = Null THEN (IF bs[i].expiry_date = bs[j].expiry_date THEN FALSE ELSE IF nulls_last THEN bs[j].expiry_date = Null ELSE bs[i].expiry_date = Null) ELSE bs[i].expiry_date < bs[j].expiry_date

\* Batches in creation order alone.
ByCreation(bs, i, j) == i < j

FifoBefore(bs, i, j) == ExpiryBefore(bs, i, j) \/ (bs[i].expiry_date = bs[j].expiry_date /\ i < j)

\* filter(product_id, branch_id, quantity__gt=0, is_active=True)
Eligible(bs, product, branch) == {i \in BatchIds(bs) : bs[i].product = product /\ bs[i].branch = branch /\ bs[i].quantity > 0 /\ bs[i].is_active}

FifoQuery(bs, product, branch) == LET S == Eligible(bs, product, branch) IN Ordered(S, {p \in S \X S : FifoBefore(bs, p[1], p[2])})

RECURSIVE TotalQuantity(_, _)
TotalQuantity(bs, ids) == IF ids = <<>> THEN 0 ELSE bs[Head(ids)].quantity + TotalQuantity(bs, Tail(ids))

----------------------------------------------------------------------------
(* Receiving stock. *)

\* One pass of the item loop of create_inventory_item: an item with a missing
\* (falsy) quantity or expiry date is skipped, and so is one whose row the
\* database refuses; every other item becomes a new batch.
RECURSIVE CreateItems(_, _, _, _)
CreateItems(bs, items, branch, org) == IF items = <<>> THEN bs ELSE LET it == Head(items) IN IF it.quantity = 0 \/ it.expiry_date = Null \/ ~QuantityColumnAccepts(it.quantity) THEN CreateItems(bs, Tail(items), branch, org) ELSE CreateItems(Append(bs, InventoryItem(it.medicine_id, branch, org, it.quantity, it.expiry_date)), Tail(items), branch, org)

TargetBranch(user, data) == IF data.branch_id # Null THEN data.branch_id ELSE user.branch_id

create_inventory_item(user, data) ==
    /\ data.items # <<>>
    /\ Len(batches) + Len(data.items) <= MaxBatches
    /\ batches' = CreateItems(batches, data.items, TargetBranch(user, data), user.organization_id)
    /\ last' = Plain("create_inventory_item", 200)
    /\ UNCHANGED <<sales, orders, nulls_last, requests>>

\* restock_item creates the batch without looking at the quantity or the
\* expiry date; only the database can refuse the row.
restock_item(user, data) ==
    /\ Len(batches) < MaxBatches
    /\ LET it == data.item
           ok == QuantityColumnAccepts(it.quantity)
       IN /\ batches' = IF ok THEN Append(batches, InventoryItem(it.medicine_id, TargetBranch(user, data), user.organization_id, it.quantity, it.expiry_date)) ELSE batches
          /\ last' = Plain("restock_item", IF ok THEN 200 ELSE 500)
    /\ UNCHANGED <<sales, orders, nulls_last, requests>>

----------------------------------------------------------------------------
(* The allocation endpoints: both only read. *)

AllocationLine(id, quantity) == [inventory_item_id |-> id, allocated_quantity |-> quantity]

\* The allocation loop: min(item.quantity, remaining) from each batch in
\* order, until nothing remains.
RECURSIVE AllocationWalk(_, _, _)
AllocationWalk(bs, ids, remaining) == IF ids = <<>> \/ remaining <= 0 THEN <<>> ELSE LET a == Min(bs[Head(ids)].quantity, remaining) IN <<AllocationLine(Head(ids), a)>> \o AllocationWalk(bs, Tail(ids), remaining - a)

\* item.expiry_date.isoformat() raises on a batch without expiry date.
IsoformatRaises(bs, lines) == \E k \in 1..Len(lines) : bs[lines[k].inventory_item_id].expiry_date = Null

AllocateStockResponse(bs, data) ==
    LET ids == FifoQuery(bs, data.medicine_id, data.branch_id)
        lines == AllocationWalk(bs, ids, data.quantity)
    IN IF data.medicine_id = Null \/ data.quantity <= 0 THEN Refusal("allocate_stock", InvalidRequest)
       ELSE IF ids = <<>> THEN Refusal("allocate_stock", NoStock)
       ELSE IF TotalQuantity(bs, ids) < data.quantity THEN Refusal("allocate_stock", Insufficient(TotalQuantity(bs, ids), data.quantity))
       ELSE IF IsoformatRaises(bs, lines) THEN Plain("allocate_stock", 500)
       ELSE Response("allocate_stock", 200, <<>>, lines, data.quantity)

\* An allocation that takes what it allocates out of the batches.
allocate_and_reserve(user, data) ==
    /\ last' = Asked(data.quantity, AllocateStockResponse(batches, data))
    /\ batches' = IF AllocateStockResponse(batches, data).status = 200 THEN [i \in DOMAIN batches |-> IF i = AllocateStockResponse(batches, data).allocations[1].inventory_item_id THEN [batches[i] EXCEPT !.quantity = @ - AllocateStockResponse(batches, data).allocations[1].allocated_quantity] ELSE batches[i]] ELSE batches
    /\ UNCHANGED <<sales, orders, nulls_last, requests>>

allocate_stock(user, data) ==
    /\ last' = Asked(data.quantity, AllocateStockResponse(batches, data))
    /\ UNCHANGED <<batches, sales, orders, nulls_last, requests>>

\* filter(product_id, organization_id, branch_id, quantity__gt=0).order_by('created_at')
CreatedQuery(bs, product, org, branch) == LET S == {i \in BatchIds(bs) : bs[i].product = product /\ bs[i].organization_id = org /\ bs[i].branch = branch /\ bs[i].quantity > 0} IN Ordered(S, {p \in S \X S : p[1] < p[2]})

AllocateStockFifoResponse(bs, user, data) ==
    LET ids == CreatedQuery(bs, data.medicine_id, user.organization_id, TargetBranch(user, data))
    IN IF data.medicine_id = Null \/ data.quantity <= 0 THEN Refusal("allocate_stock_fifo", InvalidRequest)
       ELSE IF ids = <<>> THEN Refusal("allocate_stock_fifo", NoStock)
       ELSE IF data.quantity > TotalQuantity(bs, ids) THEN Refusal("allocate_stock_fifo", Insufficient(TotalQuantity(bs, ids), data.quantity))
       ELSE Response("allocate_stock_fifo", 200, <<>>, AllocationWalk(bs, ids, data.quantity), data.quantity)

allocate_stock_fifo(user, data) ==
    /\ last' = Asked(data.quantity, AllocateStockFifoResponse(batches, user, data))
    /\ UNCHANGED <<batches, sales, orders, nulls_last, requests>>

----------------------------------------------------------------------------
(* Sales: the rows, and the fields of a request body. *)

\* Tax is 13 percent of (subtotal - discount_amount).
TaxRatePercent == 13

Tax(discounted_subtotal) == (discounted_subtotal * TaxRatePercent) \div 100

NoSale == [status |-> "none"]

SaleIds == 1..MaxSales

\* The id of the row Sale.objects.create inserts.
NewSaleId == CHOOSE i \in SaleIds : sales[i].status = "none" /\ \A j \in SaleIds : sales[j].status = "none" => i <= j

SaleItem(item_data) == [product |-> item_data.medicine_id, quantity |-> item_data.quantity, unit_price |-> item_data.price, allocated_batches |-> item_data.batch_info]

SaleItems(items) == [k \in 1..Len(items) |-> SaleItem(items[k])]

\* data.get(key, default) for the amount keys, which a request sends together
\* or not at all.
Sent(data, value, default) == IF data.has_amounts THEN value ELSE default

\* Payment rows: one per split payment with a positive amount, or else one
\* for paid_amount when it is positive.
RECURSIVE PositiveAmounts(_)
PositiveAmounts(amounts) == IF amounts = <<>> THEN <<>> ELSE IF Head(amounts) > 0 THEN <<Head(amounts)>> \o PositiveAmounts(Tail(amounts)) ELSE PositiveAmounts(Tail(amounts))

Payments(data) == IF data.split_payments # <<>> THEN PositiveAmounts(data.split_payments) ELSE IF data.paid_amount > 0 THEN <<data.paid_amount>> ELSE <<>>

----------------------------------------------------------------------------
(* Stock reduction at completion. *)

\* What a reduction did: whether it ended without an exception, the batches
\* as written so far, and how many sale items were reached.
Outcome(ok, bs, done) == [ok |-> ok, batches |-> bs, done |-> done]

\* The loop over an item's allocated batches without its quantity test.
RECURSIVE ReduceUnguarded(_, _)
ReduceUnguarded(bs, lines) == IF lines = <<>> THEN Outcome(TRUE, bs, 0) ELSE LET id == Head(lines).inventory_item_id IN LET q == Head(lines).allocated_quantity IN IF id \notin BatchIds(bs) THEN Outcome(FALSE, bs, 0) ELSE ReduceUnguarded([bs EXCEPT ![id].quantity = @ - q], Tail(lines))

\* The loop over an item's allocated batches: a missing batch raises, a batch
\* with less than the allocated quantity raises, any other is reduced.
RECURSIVE ReduceAllocated(_, _)
ReduceAllocated(bs, lines) == IF lines = <<>> THEN Outcome(TRUE, bs, 0) ELSE LET id == Head(lines).inventory_item_id IN LET q == Head(lines).allocated_quantity IN IF id \notin BatchIds(bs) THEN Outcome(FALSE, bs, 0) ELSE IF bs[id].quantity >= q THEN ReduceAllocated([bs EXCEPT ![id].quantity = @ - q], Tail(lines)) ELSE Outcome(FALSE, bs, 0)

\* The FIFO loop over the batches the query returned.
RECURSIVE FifoWalk(_, _, _)
FifoWalk(bs, ids, remaining) == IF ids = <<>> \/ remaining <= 0 THEN [ok |-> TRUE, batches |-> bs, remaining |-> remaining] ELSE LET id == Head(ids) IN LET a == Min(bs[id].quantity, remaining) IN IF bs[id].quantity >= a THEN FifoWalk([bs EXCEPT ![id].quantity = @ - a], Tail(ids), remaining - a) ELSE [ok |-> FALSE, batches |-> bs, remaining |-> remaining]

\* FIFO fallback: raises when the batches cannot cover the quantity.
FifoReduce(bs, product, branch, quantity) == LET w == FifoWalk(bs, FifoQuery(bs, product, branch), quantity) IN Outcome(w.ok /\ w.remaining <= 0, w.batches, 0)

TotalAllocated(lines) == SumSeq([k \in 1..Len(lines) |-> lines[k].allocated_quantity])

\* The stock reduction of one sale item, as each of the three handlers does it.
ReduceItem(handler, bs, item, branch) ==
    CASE handler = "complete_sale" ->
           IF item.allocated_batches = <<>> THEN FifoReduce(bs, item.product, branch, item.quantity)
           ELSE IF TotalAllocated(item.allocated_batches) # item.quantity THEN Outcome(FALSE, bs, 0)
           ELSE ReduceAllocated(bs, item.allocated_batches)
      [] handler = "create_direct_sale" ->
           IF item.allocated_batches # <<>> THEN ReduceAllocated(bs, item.allocated_batches)
           ELSE FifoReduce(bs, item.product, branch, item.quantity)
      [] handler = "create_sale" ->
           IF item.allocated_batches # <<>> /\ TotalAllocated(item.allocated_batches) = item.quantity THEN ReduceAllocated(bs, item.allocated_batches)
           ELSE FifoReduce(bs, item.product, branch, item.quantity)

\* The loop over the sale's items; it stops at the first exception.
RECURSIVE ReduceItems(_, _, _, _, _)
ReduceItems(handler, bs, items, branch, done) == IF items = <<>> THEN Outcome(TRUE, bs, done) ELSE LET r == ReduceItem(handler, bs, Head(items), branch) IN IF r.ok THEN ReduceItems(handler, r.batches, Tail(items), branch, done + 1) ELSE Outcome(FALSE, r.batches, done + 1)

----------------------------------------------------------------------------
(* The sale handlers of src/pos/views.py. *)

\* The model follows a batch up to MaxQty units.
WithinStockBound(bs) == \A i \in BatchIds(bs) : bs[i].quantity <= MaxQty

HasFreeSaleId == \E i \in SaleIds : sales[i].status = "none"

Items(data) == IF data.has_items THEN SaleItems(data.items) ELSE <<>>

\* The lookup without status='pending'.
AnyStatus(ss, user, sale_id) == sale_id \in DOMAIN ss /\ ss[sale_id].status # "none" /\ ss[sale_id].organization_id = user.organization_id

\* get_object_or_404(Sale, id=sale_id, status='pending', organization_id=...)
IsPending(ss, user, sale_id) == sale_id \in DOMAIN ss /\ ss[sale_id].status = "pending" /\ ss[sale_id].organization_id = user.organization_id

\* get_object_or_404(Sale, sale_number=sale_id, organization_id=...)
IsSale(ss, user, sale_id) == sale_id \in DOMAIN ss /\ ss[sale_id].status # "none" /\ ss[sale_id].organization_id = user.organization_id

\* The sale row save_pending_bill creates.
PendingSale(user, data) ==
    LET subtotal == Sent(data, data.subtotal, 0)
        discount_amount == Sent(data, data.discount_amount, 0)
        discounted_subtotal == subtotal - discount_amount
        tax_amount == Tax(discounted_subtotal)
        calculated_total == discounted_subtotal + tax_amount
    IN [status |-> "pending", branch |-> TargetBranch(user, data), organization_id |-> user.organization_id,
        subtotal |-> subtotal, tax_amount |-> tax_amount, discount_amount |-> discount_amount,
        total_amount |-> calculated_total, amount_paid |-> 0, credit_amount |-> calculated_total,
        change_amount |-> 0, items |-> Items(data), payments |-> <<>>]

\* A save that takes the items' stock as a completion does.
save_and_reduce(user, data) ==
    /\ HasFreeSaleId
    /\ sales' = [sales EXCEPT ![NewSaleId] = PendingSale(user, data)]
    /\ batches' = ReduceItems("create_direct_sale", batches, Items(data), TargetBranch(user, data), 0).batches
    /\ last' = Plain("save_pending_bill", 200)
    /\ UNCHANGED <<orders, nulls_last, requests>>

save_pending_bill(user, data) ==
    /\ HasFreeSaleId
    /\ sales' = [sales EXCEPT ![NewSaleId] = PendingSale(user, data)]
    /\ last' = Plain("save_pending_bill", 200)
    /\ UNCHANGED <<batches, orders, nulls_last, requests>>

\* The update without the delete: the request's items are added to the old.
KeepAndAdd(old, new) == old \o new

\* SaleItem.objects.filter(sale=sale).delete(), then one create per item of
\* the request.
ReplaceItems(old, new) == new

\* The rows after update_pending_bill: unchanged when the sale is not a
\* pending sale of the user's organization (the lookup raises).
UpdatePending(ss, user, sale_id, data) ==
    IF ~IsPending(ss, user, sale_id) THEN ss
    ELSE LET subtotal == Sent(data, data.subtotal, 0)
             discount_amount == Sent(data, data.discount_amount, 0)
             discounted_subtotal == subtotal - discount_amount
             tax_amount == Tax(discounted_subtotal)
             calculated_total == discounted_subtotal + tax_amount
         IN [ss EXCEPT ![sale_id] = [@ EXCEPT !.subtotal = subtotal, !.tax_amount = tax_amount,
                                                !.discount_amount = discount_amount, !.total_amount = calculated_total,
                                                !.credit_amount = calculated_total,
                                                !.items = ReplaceItems(@, Items(data))]]

update_pending_bill(user, sale_id, data) ==
    /\ sales' = Atomic(IsPending(sales, user, sale_id), UpdatePending(sales, user, sale_id, data), sales)
    /\ last' = OnSale(sale_id, Plain("update_pending_bill", IF IsPending(sales, user, sale_id) THEN 200 ELSE 500))
    /\ UNCHANGED <<batches, orders, nulls_last, requests>>

\* complete_sale with a sale_id: completes a pending sale.
complete_sale(user, data) ==
    /\ data.sale_id # Null
    /\ LET found == IsPending(sales, user, data.sale_id)
           sale == sales[data.sale_id]
           paid_amount == data.paid_amount
           total_amount == Sent(data, data.total, sale.total_amount)
           items == IF data.has_items THEN SaleItems(data.items) ELSE sale.items
           r == IF found THEN ReduceItems("complete_sale", batches, items, sale.branch, 0) ELSE Outcome(FALSE, batches, 0)
           completed == [sale EXCEPT !.subtotal = Sent(data, data.subtotal, @), !.tax_amount = Sent(data, data.tax_amount, @),
                                     !.discount_amount = Sent(data, data.discount_amount, @), !.total_amount = total_amount,
                                     !.amount_paid = paid_amount, !.credit_amount = Max(0, total_amount - paid_amount),
                                     !.change_amount = Max(0, paid_amount - total_amount), !.status = "completed",
                                     !.items = items, !.payments = IF r.ok THEN @ \o Payments(data) ELSE @]
           written == IF found THEN [sales EXCEPT ![data.sale_id] = completed] ELSE sales
       IN /\ WithinStockBound(r.batches)
          /\ sales' = Atomic(r.ok, written, sales)
          /\ batches' = Atomic(r.ok, r.batches, batches)
          /\ last' = OnSale(data.sale_id, Plain("complete_sale", IF r.ok THEN 200 ELSE 500))
    /\ UNCHANGED <<orders, nulls_last, requests>>

\* complete_sale without a sale_id: create_direct_sale, inside complete_sale's
\* transaction.  Each item's row is created, then its stock reduced.
create_direct_sale(user, data) ==
    /\ data.sale_id = Null
    /\ HasFreeSaleId
    /\ LET subtotal == Sent(data, data.subtotal, 0)
           discount_amount == Sent(data, data.discount_amount, 0)
           discounted_subtotal == subtotal - discount_amount
           tax_amount == Tax(discounted_subtotal)
           calculated_total == discounted_subtotal + tax_amount
           paid_amount == data.paid_amount
           branch_id == TargetBranch(user, data)
           r == ReduceItems("create_direct_sale", batches, Items(data), branch_id, 0)
           sale == [status |-> "completed", branch |-> branch_id, organization_id |-> user.organization_id,
                    subtotal |-> subtotal, tax_amount |-> tax_amount, discount_amount |-> discount_amount,
                    total_amount |-> calculated_total, amount_paid |-> paid_amount,
                    credit_amount |-> Max(0, calculated_total - paid_amount),
                    change_amount |-> Max(0, paid_amount - calculated_total),
                    items |-> SubSeq(Items(data), 1, r.done), payments |-> IF r.ok THEN Payments(data) ELSE <<>>]
       IN /\ WithinStockBound(r.batches)
          /\ sales' = Atomic(r.ok, [sales EXCEPT ![NewSaleId] = sale], sales)
          /\ batches' = Atomic(r.ok, r.batches, batches)
          /\ last' = Plain("create_direct_sale", IF r.ok THEN 200 ELSE 500)
    /\ UNCHANGED <<orders, nulls_last, requests>>

\* create_sale stores the amounts the request sends.
create_sale(user, data) ==
    /\ HasFreeSaleId
    /\ LET subtotal == Sent(data, data.subtotal, 0)
           tax_amount == Sent(data, data.tax_amount, 0)
           discount_amount == Sent(data, data.discount_amount, 0)
           total_amount == Sent(data, data.total, 0)
           paid_amount == data.paid_amount
           branch_id == TargetBranch(user, data)
           r == ReduceItems("create_sale", batches, Items(data), branch_id, 0)
           sale == [status |-> "completed", branch |-> branch_id, organization_id |-> user.organization_id,
                    subtotal |-> subtotal, tax_amount |-> tax_amount, discount_amount |-> discount_amount,
                    total_amount |-> total_amount, amount_paid |-> paid_amount,
                    credit_amount |-> Max(0, total_amount - paid_amount),
                    change_amount |-> Max(0, paid_amount - total_amount),
                    items |-> SubSeq(Items(data), 1, r.done), payments |-> IF r.ok THEN Payments(data) ELSE <<>>]
       IN /\ WithinStockBound(r.batches)
          /\ sales' = Atomic(r.ok, [sales EXCEPT ![NewSaleId] = sale], sales)
          /\ batches' = Atomic(r.ok, r.batches, batches)
          /\ last' = Plain("create_sale", IF r.ok THEN 200 ELSE 500)
    /\ UNCHANGED <<orders, nulls_last, requests>>

\* delete_sale adds every allocated batch line of every item back to its
\* batch (a line whose batch does not exist is skipped), whatever the sale's
\* status, then deletes the sale with its items and payments.  A save the
\* quantity column refuses raises.
RECURSIVE RestoreAllocated(_, _)
RestoreAllocated(bs, lines) == IF lines = <<>> THEN Outcome(TRUE, bs, 0) ELSE LET id == Head(lines).inventory_item_id IN LET q == Head(lines).allocated_quantity IN IF id \notin BatchIds(bs) THEN RestoreAllocated(bs, Tail(lines)) ELSE IF QuantityColumnAccepts(bs[id].quantity + q) THEN RestoreAllocated([bs EXCEPT ![id].quantity = @ + q], Tail(lines)) ELSE Outcome(FALSE, bs, 0)

RECURSIVE RestoreItems(_, _)
RestoreItems(bs, items) == IF items = <<>> THEN Outcome(TRUE, bs, 0) ELSE LET r == RestoreAllocated(bs, Head(items).allocated_batches) IN IF r.ok THEN RestoreItems(r.batches, Tail(items)) ELSE r

delete_sale(user, sale_id) ==
    LET found == IsSale(sales, user, sale_id)
        allowed == found /\ user.is_staff
        r == IF allowed THEN RestoreItems(batches, sales[sale_id].items) ELSE Outcome(FALSE, batches, 0)
    IN /\ WithinStockBound(r.batches)
       /\ batches' = Atomic(r.ok, r.batches, batches)
       /\ sales' = Atomic(r.ok, [sales EXCEPT ![sale_id] = NoSale], sales)
       /\ last' = OnSale(sale_id, Plain("delete_sale", IF ~found THEN 500 ELSE IF ~user.is_staff THEN 403 ELSE IF r.ok THEN 200 ELSE 500))
       /\ UNCHANGED <<orders, nulls_last, requests>>

\* The amount columns of Sale take the request's float in += and -=.
AmountColumnAdd(column, amount) == column + amount

\* The sale rows after an accepted credit payment: one Payment row more, the
\* amount moved from credit_amount to amount_paid.
CreditPaid(ss, sale_id, payment_amount) == [ss EXCEPT ![sale_id] = [@ EXCEPT !.payments = Append(@, payment_amount), !.amount_paid = AmountColumnAdd(@, payment_amount), !.credit_amount = AmountColumnAdd(@, -payment_amount)]]

\* The handler without the test against the outstanding credit.
pay_unchecked(user, sale_id, data) ==
    /\ IsSale(sales, user, sale_id) => Len(sales[sale_id].payments) < MaxPayments
    /\ LET found == IsSale(sales, user, sale_id)
           accepted == found /\ sales[sale_id].credit_amount > 0 /\ data.amount > 0
       IN /\ sales' = IF accepted THEN CreditPaid(sales, sale_id, data.amount) ELSE sales
          /\ last' = OnSale(sale_id, Paying(data.amount, Plain("process_credit_payment", IF ~found THEN 500 ELSE IF accepted THEN 200 ELSE 400)))
    /\ UNCHANGED <<batches, orders, nulls_last, requests>>

process_credit_payment(user, sale_id, data) ==
    /\ IsSale(sales, user, sale_id) => Len(sales[sale_id].payments) < MaxPayments
    /\ LET found == IsSale(sales, user, sale_id)
           sale == sales[sale_id]
           payment_amount == data.amount
           accepted == found /\ sale.credit_amount > 0 /\ payment_amount > 0 /\ payment_amount <= sale.credit_amount
       IN /\ sales' = IF accepted THEN CreditPaid(sales, sale_id, payment_amount) ELSE sales
          /\ last' = OnSale(sale_id, Paying(payment_amount, Plain("process_credit_payment", IF ~found THEN 500 ELSE IF accepted THEN 200 ELSE 400)))
    /\ UNCHANGED <<batches, orders, nulls_last, requests>>

\* order_by('-expiry_date'): the reverse of the ascending expiry order; the
\* query names no second key, so batches with the same expiry date come in
\* either order.
DescBefore(bs, i, j, by_id) == ExpiryBefore(bs, j, i) \/ (bs[i].expiry_date = bs[j].expiry_date /\ IF by_id THEN i < j ELSE j < i)

DescQuery(bs, product, branch, by_id) == LET S == Eligible(bs, product, branch) IN Ordered(S, {p \in S \X S : DescBefore(bs, p[1], p[2], by_id)})

\* The loop of deallocate_stock: min(item.quantity, remaining) is added to
\* each batch in turn.
RECURSIVE DeallocateWalk(_, _, _, _)
DeallocateWalk(bs, ids, remaining, lines) == IF ids = <<>> \/ remaining <= 0 THEN [batches |-> bs, lines |-> lines] ELSE LET id == Head(ids) IN LET d == Min(bs[id].quantity, remaining) IN DeallocateWalk([bs EXCEPT ![id].quantity = @ + d], Tail(ids), remaining - d, Append(lines, AllocationLine(id, d)))

deallocate_stock(user, data) ==
    \E by_id \in BOOLEAN :
        LET ids == DescQuery(batches, data.medicine_id, data.branch_id, by_id)
            invalid == data.medicine_id = Null \/ data.quantity <= 0
            w == IF invalid \/ ids = <<>> THEN [batches |-> batches, lines |-> <<>>] ELSE DeallocateWalk(batches, ids, data.quantity, <<>>)
        IN /\ WithinStockBound(w.batches)
           /\ batches' = w.batches
           /\ last' = IF invalid THEN Refusal("deallocate_stock", InvalidRequest) ELSE IF ids = <<>> THEN Refusal("deallocate_stock", NoStock) ELSE Response("deallocate_stock", 200, <<>>, w.lines, data.quantity)
           /\ UNCHANGED <<sales, orders, nulls_last, requests>>

----------------------------------------------------------------------------
(* The stock specification: receipts, deallocation, and the sale workflow  *)
(* as far as it moves stock.  The requests carry no amounts and no payment.*)

ReceiptQuantities == -1..MaxQty

ReceiptItems == [medicine_id : Products, quantity : ReceiptQuantities, expiry_date : ExpiryDates]

StockEntries == [branch_id : Branches, items : {<<i>> : i \in ReceiptItems}]

Restocks == [branch_id : Branches, item : ReceiptItems]

AllocationRequests == [medicine_id : Products, quantity : 0..(MaxQty + 1), branch_id : Branches]

\* The batch lines a cart item carries (batch_info): none, one line, or two
\* lines of one unit each; line ids reach one past the last batch, and the
\* client may send a negative quantity.
LineQuantities == {-1} \cup 1..MaxQty

BatchLines == {AllocationLine(id, q) : id \in 1..(MaxBatches + 1), q \in LineQuantities}

BatchInfos == {<<>>} \cup {<<l>> : l \in BatchLines} \cup {<<AllocationLine(i, 1), AllocationLine(i + 1, 1)>> : i \in 1..MaxBatches}

\* The carts of this specification sell product 1; a batch line may name a
\* batch of any product.
CartItems == [medicine_id : {1}, quantity : 1..MaxQty, price : {500}, batch_info : BatchInfos]

FifoCartItems == {i \in CartItems : i.batch_info = <<>>}

Carts == {<<>>} \cup {<<i>> : i \in CartItems} \cup {<<i, j>> : i \in FifoCartItems, j \in FifoCartItems}

NoAmounts(sale_id, has_items, items) == [sale_id |-> sale_id, branch_id |-> Null, has_items |-> has_items, items |-> items, has_amounts |-> FALSE, subtotal |-> 0, discount_amount |-> 0, tax_amount |-> 0, total |-> 0, paid_amount |-> 0, split_payments |-> <<>>]

NewSaleRequests == {NoAmounts(Null, TRUE, c) : c \in Carts}

SaleRequests == {NoAmounts(id, TRUE, c) : id \in SaleIds, c \in Carts} \cup {NoAmounts(id, FALSE, <<>>) : id \in SaleIds}

Init ==
    /\ batches = <<>>
    /\ sales = [i \in SaleIds |-> NoSale]
    /\ orders = <<>>
    /\ nulls_last = TRUE
    /\ last = NoRequest
    /\ requests = NoneInFlight

Next ==
    \/ \E user \in Cashiers, data \in StockEntries : create_inventory_item(user, data)
    \/ \E user \in Cashiers, data \in Restocks : restock_item(user, data)
    \/ \E user \in Cashiers, data \in AllocationRequests : deallocate_stock(user, data)
    \/ \E user \in Cashiers, data \in NewSaleRequests : save_pending_bill(user, data)
    \/ \E user \in Cashiers, data \in SaleRequests : update_pending_bill(user, data.sale_id, data)
    \/ \E user \in Cashiers, data \in SaleRequests : complete_sale(user, data)
    \/ \E user \in Cashiers, data \in NewSaleRequests : create_direct_sale(user, data)
    \/ \E user \in Cashiers, data \in NewSaleRequests : create_sale(user, data)
    \/ \E user \in Users, sale_id \in SaleIds : delete_sale(user, sale_id)

Spec == Init /\ [][Next]_vars

----------------------------------------------------------------------------
(* Properties of the stock specification. *)

SaleHandlers == {"complete_sale", "create_direct_sale", "create_sale"}

\* A stored sale item of one batch line that names an existing batch and asks
\* for more than the batch holds.
AsksTooMuch(item) == /\ Len(item.allocated_batches) = 1
                     /\ item.allocated_batches[1].allocated_quantity = item.quantity
                     /\ item.allocated_batches[1].inventory_item_id \in BatchIds(batches)
                     /\ item.allocated_batches[1].allocated_quantity > batches[item.allocated_batches[1].inventory_item_id].quantity

RECURSIVE SumOver(_, _)
SumOver(f, S) == IF S = {} THEN 0 ELSE LET x == CHOOSE y \in S : TRUE IN f[x] + SumOver(f, S \ {x})

\* Units of a product in stock, and units of it in completed sales.
InStock(bs, product) == SumOver([i \in BatchIds(bs) |-> IF bs[i].product = product THEN bs[i].quantity ELSE 0], BatchIds(bs))

SoldIn(sale, product) == IF sale.status = "completed" THEN SumOver([k \in 1..Len(sale.items) |-> IF sale.items[k].product = product THEN sale.items[k].quantity ELSE 0], 1..Len(sale.items)) ELSE 0

Committed(ss, product) == SumOver([s \in DOMAIN ss |-> SoldIn(ss[s], product)], DOMAIN ss)

\* C2: conservation.  Units in stock plus units in completed sales equal the
\* units received, so a step changes that sum by exactly the quantity of the
\* batches the step received (a sale moves units from stock to the sale, a
\* reversal moves them back).
Conservation == [][\A p \in Products : InStock(batches', p) + Committed(sales', p) = InStock(batches, p) + Committed(sales, p) + InStock(SubSeq(batches', Len(batches) + 1, Len(batches')), p)]_vars

\* C3: when complete_sale, create_direct_sale or create_sale fails, every
\* batch and every sale (status, amounts, items, payments) is as before the
\* call.
CompletionAllOrNothing == [][(last'.op \in SaleHandlers /\ last'.status = 500) => (batches' = batches /\ sales' = sales)]_vars

\* complete_sale failed on a pending sale of two FIFO items whose first item
\* the stock covers and whose second it does not.
FailedAfterFirstItem == last.op = "complete_sale" /\ last.status = 500 /\ \E s \in SaleIds : sales[s].status = "pending" /\ Len(sales[s].items) = 2 /\ sales[s].items[1].allocated_batches = <<>> /\ sales[s].items[2].allocated_batches = <<>> /\ InStock(batches, 1) >= sales[s].items[1].quantity /\ InStock(batches, 1) < sales[s].items[1].quantity + sales[s].items[2].quantity

\* Update requests with amounts, in hundredths.
AmountUpdates == {[NoAmounts(id, TRUE, c) EXCEPT !.has_amounts = TRUE, !.subtotal = st, !.discount_amount = d] : id \in SaleIds, c \in Carts, st \in {0, 100000}, d \in {0, 10000}}

\* C9: update_pending_bill twice with one payload leaves what once leaves:
\* the same sale rows, items and amounts; and after one update of a pending
\* sale its items are exactly the items of the payload.
UpdateIdempotent ==
    \A user \in Cashiers, data \in SaleRequests \cup AmountUpdates :
        LET once == UpdatePending(sales, user, data.sale_id, data)
        IN /\ UpdatePending(once, user, data.sale_id, data) = once
           /\ IsPending(sales, user, data.sale_id) => once[data.sale_id].items = Items(data)

\* update_pending_bill has replaced the items of a pending sale.
PendingUpdated == last.op = "update_pending_bill" /\ last.status = 200 /\ \E s \in SaleIds : sales[s].status = "pending" /\ sales[s].items # <<>>

\* The items and the totals of a sale.
Settled(sale) == <<sale.items, sale.subtotal, sale.discount_amount, sale.tax_amount, sale.total_amount>>

LookupsPending == {"update_pending_bill", "complete_sale"}

\* C11: a completed sale stays completed until it is deleted and keeps its
\* items and totals; update_pending_bill and complete_sale on a completed
\* sale fail and change no sale and no batch, so the sale's stock is reduced
\* once, however the calls are repeated or ordered.
CompletedIsTerminal ==
    [][\A s \in SaleIds : sales[s].status = "completed" =>
          /\ sales'[s].status \in {"completed", "none"}
          /\ sales'[s].status = "completed" => Settled(sales'[s]) = Settled(sales[s])
          /\ (last'.op \in LookupsPending /\ last'.sale_id = s) => (last'.status # 200 /\ sales' = sales /\ batches' = batches)]_vars

\* complete_sale was refused on a completed sale whose items the stock would
\* cover once more.
CompletedRefused == last.op = "complete_sale" /\ last.status = 500 /\ \E s \in SaleIds : last.sale_id = s /\ sales[s].status = "completed" /\ sales[s].items # <<>> /\ ReduceItems("complete_sale", batches, sales[s].items, sales[s].branch, 0).ok

PendingBillOps == {"save_pending_bill", "update_pending_bill"}

\* C12: save_pending_bill and update_pending_bill leave every batch as it is
\* and add no Payment row to any sale; the sale save_pending_bill creates is
\* pending with amount_paid 0 and no payment, and an updated sale stays
\* pending with the amount_paid it had.
PendingKeepsStock ==
    [][last'.op \in PendingBillOps =>
          /\ batches' = batches
          /\ \A s \in SaleIds :
                /\ sales[s].status # "none" => (sales'[s].status = sales[s].status /\ sales'[s].payments = sales[s].payments /\ sales'[s].amount_paid = sales[s].amount_paid)
                /\ (sales[s].status = "none" /\ sales'[s].status # "none") => (last'.op = "save_pending_bill" /\ sales'[s].status = "pending" /\ sales'[s].amount_paid = 0 /\ sales'[s].payments = <<>>)]_vars

\* A pending bill was saved with a batch snapshot the stock covers, and the
\* batch still holds the units.
SavedWithSnapshot == last.op = "save_pending_bill" /\ \E s \in SaleIds : sales[s].status = "pending" /\ Len(sales[s].items) = 1 /\ sales[s].items[1].allocated_batches # <<>> /\ TotalAllocated(sales[s].items[1].allocated_batches) = sales[s].items[1].quantity /\ ReduceAllocated(batches, sales[s].items[1].allocated_batches).ok

\* C14: a sale is deleted only from completed and only by staff: delete_sale
\* of an existing sale by a user who is not staff answers 403 and changes no
\* sale and no batch, and delete_sale on a pending sale leaves the sale and
\* every batch as they were.
DeleteOnlyCompleted ==
    [][last'.op = "delete_sale" =>
          /\ \A user \in Cashiers, s \in SaleIds : (IsSale(sales, user, s) /\ delete_sale(user, s)) => (last'.status = 403 /\ sales' = sales /\ batches' = batches)
          /\ \A s \in SaleIds : (last'.sale_id = s /\ sales[s].status = "pending") => (sales'[s] = sales[s] /\ batches' = batches)]_vars

\* The step completes sale s: complete_sale on a pending sale, or a sale
\* created as completed.
Completes(s) == last'.op \in SaleHandlers /\ last'.status = 200 /\ sales[s].status # "completed" /\ sales'[s].status = "completed"

\* C15: deleting a completed sale reverses its reductions: right after any
\* completion, by batch snapshot or by the FIFO fallback, the restoration
\* delete_sale makes from the sale's items succeeds and returns every batch
\* to its quantity just before the completion.
DeleteReversesCompletion == [][\A s \in SaleIds : Completes(s) => RestoreItems(batches', sales'[s].items) = Outcome(TRUE, batches, 0)]_vars

\* Units in all batches, and units the items of a sale sell.
UnitsIn(bs) == SumOver([i \in BatchIds(bs) |-> bs[i].quantity], BatchIds(bs))

UnitsOf(items) == SumSeq([k \in 1..Len(items) |-> items[k].quantity])

\* C16: on every completion path a successful completion removes from the
\* batches, for each item, exactly the item's quantity, also when the item's
\* batch snapshot is absent or does not sum to the quantity (the item is then
\* allocated FIFO against the current stock).
RemovedIsSold == [][\A s \in SaleIds : Completes(s) => UnitsIn(batches) - UnitsIn(batches') = UnitsOf(sales'[s].items)]_vars

\* C24: a receipt (an item of create_inventory_item, or restock_item) of a
\* quantity > 0 appends one new batch holding exactly that quantity, a
\* receipt of a quantity <= 0 creates no batch, and the batches that existed
\* keep their quantities.
ReceiptIsNewBatch ==
    [][\A user \in Cashiers :
          /\ \A data \in Restocks : restock_item(user, data) =>
                 /\ SubSeq(batches', 1, Len(batches)) = batches
                 /\ IF data.item.quantity > 0
                    THEN Len(batches') = Len(batches) + 1 /\ batches'[Len(batches')].quantity = data.item.quantity
                    ELSE batches' = batches
          /\ \A data \in StockEntries : create_inventory_item(user, data) =>
                 /\ SubSeq(batches', 1, Len(batches)) = batches
                 /\ IF data.items[1].quantity > 0
                    THEN Len(batches') = Len(batches) + 1 /\ batches'[Len(batches')].quantity = data.items[1].quantity
                    ELSE batches' = batches]_vars

\* No eligible batch of the product at the branch expires later than batch i.
LatestExpiring(bs, product, branch, i) == i \in Eligible(bs, product, branch) /\ \A j \in Eligible(bs, product, branch) : ~ExpiryBefore(bs, i, j)

\* C25: a deallocation of q units that succeeds raises the product's units
\* in stock by exactly q, starts with the latest-expiring batch, and reports
\* as total_deallocated the sum of the quantities it added to the batches.
DeallocationRestores ==
    [][\A user \in Cashiers, data \in AllocationRequests : (last'.op = "deallocate_stock" /\ last'.status = 200 /\ deallocate_stock(user, data)) =>
          /\ InStock(batches', data.medicine_id) = InStock(batches, data.medicine_id) + data.quantity
          /\ last'.total = TotalAllocated(last'.allocations)
          /\ LatestExpiring(batches, data.medicine_id, data.branch_id, last'.allocations[1].inventory_item_id)]_vars

\* The step deletes sale s.
Deletes(s) == last'.op = "delete_sale" /\ last'.status = 200 /\ last'.sale_id = s /\ sales[s].status # "none" /\ sales'[s].status = "none"

\* The items whose stock the step moves: those of the sale it completes or
\* deletes.
MovedItems(s) == IF Deletes(s) THEN sales[s].items ELSE sales'[s].items

\* C30: a step that completes or deletes a sale changes the quantity only of
\* batches of a product the sale has an item of, at the caller's branch and
\* in the caller's organization.
OnlyOwnBatches ==
    [][\A s \in SaleIds : (Completes(s) \/ Deletes(s)) =>
          \A i \in BatchIds(batches) : batches'[i].quantity # batches[i].quantity =>
             /\ \E k \in 1..Len(MovedItems(s)) : MovedItems(s)[k].product = batches[i].product
             /\ \E user \in Users : batches[i].branch = user.branch_id /\ batches[i].organization_id = user.organization_id]_vars

----------------------------------------------------------------------------
(* The allocation specification: FifoBatches batches of product 1 are in   *)
(* stock at branch 1, some empty and some without expiry date; the         *)
(* requests are the two allocation endpoints and sales of one item without *)
(* batch snapshot.                                                         *)

\* The expiry_date column: a date, or NULL (the expiry date is optional).
FifoExpiryDates == {Null} \cup 1..FifoBatches

FifoStock == [1..FifoBatches -> {InventoryItem(1, 1, 1, q, e) : q \in 0..MaxQty, e \in FifoExpiryDates}]

FifoRequests == [medicine_id : {1}, quantity : 0..(MaxQty + 1), branch_id : Branches]

FifoCarts == {<<[medicine_id |-> 1, quantity |-> q, price |-> 500, batch_info |-> <<>>]>> : q \in 1..(MaxQty + 1)}

FifoNewSales == {NoAmounts(Null, TRUE, c) : c \in FifoCarts}

FifoCompletions == {NoAmounts(id, FALSE, <<>>) : id \in SaleIds}

InitFifo ==
    /\ batches \in FifoStock
    /\ sales = [i \in SaleIds |-> NoSale]
    /\ orders = <<>>
    /\ nulls_last \in BOOLEAN
    /\ last = NoRequest
    /\ requests = NoneInFlight

NextFifo ==
    \/ \E user \in Cashiers, data \in FifoRequests : allocate_stock(user, data)
    \/ \E user \in Cashiers, data \in FifoRequests : allocate_stock_fifo(user, data)
    \/ \E user \in Cashiers, data \in FifoNewSales : save_pending_bill(user, data)
    \/ \E user \in Cashiers, data \in FifoCompletions : complete_sale(user, data)
    \/ \E user \in Cashiers, data \in FifoNewSales : create_direct_sale(user, data)
    \/ \E user \in Cashiers, data \in FifoNewSales : create_sale(user, data)

SpecFifo == InitFifo /\ [][NextFifo]_vars

\* b1, b2, b3 are the eligible batches of product 1 at branch 1, and their
\* expiry dates are E1 < E2 < E3.
ThreeByExpiry(bs, b1, b2, b3) ==
    /\ Eligible(bs, 1, 1) = {b1, b2, b3}
    /\ bs[b1].expiry_date # Null /\ bs[b2].expiry_date # Null /\ bs[b3].expiry_date # Null
    /\ bs[b1].expiry_date < bs[b2].expiry_date /\ bs[b2].expiry_date < bs[b3].expiry_date

\* The step completes a sale of one item of q units of product 1 that has no
\* batch snapshot.
CompletesFifoSale(q) == last'.op \in SaleHandlers /\ last'.status = 200 /\ \E s \in SaleIds : sales[s].status # "completed" /\ sales'[s].status = "completed" /\ Len(sales'[s].items) = 1 /\ sales'[s].items[1].product = 1 /\ sales'[s].items[1].quantity = q /\ sales'[s].items[1].allocated_batches = <<>>

FirstTwoTaken(bs, b1, b2) == [i \in DOMAIN bs |-> IF i = b1 THEN [bs[i] EXCEPT !.quantity = 0] ELSE IF i = b2 THEN [bs[i] EXCEPT !.quantity = @ - 1] ELSE bs[i]]

\* C4: with three eligible batches of expiry E1 < E2 < E3 and quantities Q1,
\* Q2, Q3, allocate_stock for Q1 + 1 returns exactly the lines (batch1, Q1),
\* (batch2, 1); the FIFO reduction of Q1 + 1 succeeds, and a sale of Q1 + 1
\* units completed without batch snapshot leaves batch1 at 0, batch2 at
\* Q2 - 1 and batch3 at Q3.
FifoOrder ==
    /\ [](Cardinality(Eligible(batches, 1, 1)) = 3 => \A b1, b2, b3 \in Eligible(batches, 1, 1) : ThreeByExpiry(batches, b1, b2, b3) =>
            /\ (last.op = "allocate_stock" /\ last.quantity = batches[b1].quantity + 1) => (last.status = 200 /\ last.allocations = <<AllocationLine(b1, batches[b1].quantity), AllocationLine(b2, 1)>> /\ last.total = batches[b1].quantity + 1)
            /\ FifoReduce(batches, 1, 1, batches[b1].quantity + 1) = Outcome(TRUE, FirstTwoTaken(batches, b1, b2), 0))
    /\ [][(last'.op \in SaleHandlers /\ last'.status = 200 /\ Cardinality(Eligible(batches, 1, 1)) = 3) => \A b1, b2, b3 \in Eligible(batches, 1, 1) : (ThreeByExpiry(batches, b1, b2, b3) /\ CompletesFifoSale(batches[b1].quantity + 1)) => batches' = FirstTwoTaken(batches, b1, b2)]_vars

\* allocate_stock answered for Q1 + 1 on three batches whose expiry order is
\* not their creation order.
AllocatedAcrossTwo == last.op = "allocate_stock" /\ last.status = 200 /\ \E b1, b2, b3 \in BatchIds(batches) : ThreeByExpiry(batches, b1, b2, b3) /\ b2 < b1 /\ last.quantity = batches[b1].quantity + 1 /\ last.allocations = <<AllocationLine(b1, batches[b1].quantity), AllocationLine(b2, 1)>>

AllocationOps == {"allocate_stock", "allocate_stock_fifo"}

\* The allocation endpoints change no batch and no sale.
ReadOnly == [][last'.op \in AllocationOps => (batches' = batches /\ sales' = sales)]_vars

\* The eligible batches of the last allocation request, in the endpoint's
\* order (the batches are as the request found them: the endpoints only read).
LastQuery == IF last.op = "allocate_stock" THEN FifoQuery(batches, 1, 1) ELSE CreatedQuery(batches, 1, 1, 1)

LineWithinBatch(bs, line) == line.inventory_item_id \in BatchIds(bs) /\ line.allocated_quantity >= 1 /\ line.allocated_quantity <= bs[line.inventory_item_id].quantity

\* C6: for every quantity q > 0, allocate_stock either rejects the request as
\* insufficient stock (status 400) or returns lines that each take between
\* 1 unit and the batch's quantity and sum to q, with total_allocated equal
\* to that sum.
AllocatesExactly ==
    (last.op = "allocate_stock" /\ last.quantity > 0) =>
        \/ last.status = 400 /\ last.error \in {NoStock, Insufficient(TotalQuantity(batches, LastQuery), last.quantity)}
        \/ last.status = 200 /\ (\A k \in 1..Len(last.allocations) : LineWithinBatch(batches, last.allocations[k])) /\ TotalAllocated(last.allocations) = last.quantity /\ last.total = TotalAllocated(last.allocations)

\* C26: for the same request on the same stock the two allocation endpoints
\* answer alike: allocate_stock_fifo right after allocate_stock, asked for
\* the same quantity it allocated, also allocates and returns the same batch
\* lines in the same order.
EndpointsAgree ==
    [][(last.op = "allocate_stock" /\ last.status = 200 /\ last'.op = "allocate_stock_fifo" /\ last'.quantity = last.quantity) =>
          (last'.status = 200 /\ last'.allocations = last.allocations)]_vars

----------------------------------------------------------------------------
(* The payment specification: sales without items, so that no stock is     *)
(* involved; the requests carry the amounts and the payments.  Amounts are *)
(* in hundredths.                                                          *)

Subtotals == {100000}

Discounts == {0, 10000}

\* tax_amount and total as the client sends them.
ClientTaxes == {0, 11700}

ClientTotals == {100000, 101700}

PaidAmounts == {0, 50000, 101700, 200000}

SplitPayments == {<<>>, <<30000, 20000>>}

CreditPayments == [amount : {0, 50000, 51700, 200000}]

\* A request body with the amount keys.
WithAmounts(sale_id, has_items, subtotal, discount_amount, tax_amount, total, paid_amount, split_payments) == [sale_id |-> sale_id, branch_id |-> Null, has_items |-> has_items, items |-> <<>>, has_amounts |-> TRUE, subtotal |-> subtotal, discount_amount |-> discount_amount, tax_amount |-> tax_amount, total |-> total, paid_amount |-> paid_amount, split_payments |-> split_payments]

\* Saving and updating a pending bill read subtotal and discount_amount only.
BillRequests(ids) == {WithAmounts(id, TRUE, st, d, 0, 0, 0, <<>>) : id \in ids, st \in Subtotals, d \in Discounts}

PaidRequests(ids) == {WithAmounts(id, FALSE, st, d, t, tot, paid, sp) : id \in ids, st \in Subtotals, d \in Discounts, t \in ClientTaxes, tot \in ClientTotals, paid \in PaidAmounts, sp \in SplitPayments}

\* Completing a pending sale: with the amount keys, or with paid_amount alone.
Completions == PaidRequests(SaleIds) \cup {[NoAmounts(id, FALSE, <<>>) EXCEPT !.paid_amount = paid] : id \in SaleIds, paid \in PaidAmounts}

InitMoney ==
    /\ batches = <<>>
    /\ sales = [i \in SaleIds |-> NoSale]
    /\ orders = <<>>
    /\ nulls_last = TRUE
    /\ last = NoRequest
    /\ requests = NoneInFlight

NextMoney ==
    \/ \E user \in Cashiers, data \in BillRequests({Null}) : save_pending_bill(user, data)
    \/ \E user \in Cashiers, data \in BillRequests(SaleIds) : update_pending_bill(user, data.sale_id, data)
    \/ \E user \in Cashiers, data \in Completions : complete_sale(user, data)
    \/ \E user \in Cashiers, data \in PaidRequests({Null}) : create_direct_sale(user, data)
    \/ \E user \in Cashiers, data \in PaidRequests({Null}) : create_sale(user, data)
    \/ \E user \in Cashiers, sale_id \in SaleIds, data \in CreditPayments : process_credit_payment(user, sale_id, data)

SpecMoney == InitMoney /\ [][NextMoney]_vars

\* C7: every completed sale has amount_paid + credit_amount = total_amount,
\* also when the customer paid more than the total.
PaidPlusCreditIsTotal == \A s \in SaleIds : sales[s].status = "completed" => sales[s].amount_paid + sales[s].credit_amount = sales[s].total_amount

\* C8: every completed sale has tax_amount = 13% of (subtotal -
\* discount_amount) and total_amount = (subtotal - discount_amount) +
\* tax_amount, whatever total and tax the client sent.
TotalIsComputed == \A s \in SaleIds : sales[s].status = "completed" => (sales[s].tax_amount = Tax(sales[s].subtotal - sales[s].discount_amount) /\ sales[s].total_amount = (sales[s].subtotal - sales[s].discount_amount) + Tax(sales[s].subtotal - sales[s].discount_amount))

\* C13: process_credit_payment on an existing sale succeeds exactly when the
\* sale's credit_amount > 0 and 0 < amount <= credit_amount; it then adds one
\* Payment of that amount, takes the amount from credit_amount and adds it
\* to amount_paid, and changes nothing else; otherwise it answers 400 and
\* leaves every sale and its payments as they were.
CreditPaymentChecked ==
    [][(last'.op = "process_credit_payment" /\ last'.sale_id \in SaleIds /\ sales[last'.sale_id].status # "none") =>
          LET sale == sales[last'.sale_id]
              amount == last'.amount
          IN IF sale.credit_amount > 0 /\ amount > 0 /\ amount <= sale.credit_amount
             THEN /\ last'.status = 200
                  /\ sales' = [sales EXCEPT ![last'.sale_id] = [sale EXCEPT !.payments = Append(sale.payments, amount), !.credit_amount = sale.credit_amount - amount, !.amount_paid = sale.amount_paid + amount]]
             ELSE last'.status = 400 /\ sales' = sales]_vars

\* A credit payment of part of the outstanding credit was accepted on a
\* completed sale, which keeps the rest as credit.
PartOfCreditPaid == last.op = "process_credit_payment" /\ last.status = 200 /\ \E s \in SaleIds : last.sale_id = s /\ sales[s].status = "completed" /\ sales[s].credit_amount > 0 /\ sales[s].payments # <<>> /\ sales[s].payments[Len(sales[s].payments)] = last.amount

\* The Payment rows the step created for sale s.
CreatedPayments(s) == SubSeq(sales'[s].payments, (IF sales[s].status = "none" THEN 0 ELSE Len(sales[s].payments)) + 1, Len(sales'[s].payments))

\* C17: a sale completed with a list of split payments has amount_paid equal
\* to the sum of the Payment rows the completion created, and credit_amount
\* equal to max(0, total_amount - that sum), whatever the amounts of the
\* splits.
SplitRemainderIsCredit ==
    [][\A s \in SaleIds : (Completes(s) /\ Len(CreatedPayments(s)) > 1) =>
          /\ sales'[s].amount_paid = SumSeq(CreatedPayments(s))
          /\ sales'[s].credit_amount = Max(0, sales'[s].total_amount - SumSeq(CreatedPayments(s)))]_vars

\* C29: a pending sale has amount_paid = 0, credit_amount = total_amount and
\* no Payment row, in every reachable state.
PendingIsUnpaid == \A s \in SaleIds : sales[s].status = "pending" => (sales[s].amount_paid = 0 /\ sales[s].credit_amount = sales[s].total_amount /\ sales[s].payments = <<>>)

----------------------------------------------------------------------------
(* Bulk orders: the serializers of src/inventory/serializers.py.  The      *)
(* views that call them are not part of the source at hand: the status     *)
(* each update is legal in, and the step that opens a review, follow the   *)
(* workflow's description.                                                 *)

\* A user id with the supplier role, and one without.
SupplierUsers == {1}

UserIds == {1, 2}

StatusLog(from_status, to_status) == [from_status |-> from_status, to_status |-> to_status]

\* from_status of the row BulkOrderCreateSerializer writes: not set.
NoStatus == "none"

\* BulkOrderItem.objects.create(bulk_order=bulk_order, **item_data): the row
\* takes every writable field of the item as the request gives it.
BulkOrderItem(item_data) == [quantity_requested |-> item_data.quantity_requested, quantity_confirmed |-> item_data.quantity_confirmed, unit_price |-> item_data.unit_price]

OrderIds == 1..Len(orders)

\* BulkOrderCreateSerializer.create: the supplier lookup raises for a user
\* that is no supplier; otherwise the order, one row per item and one log
\* row are created.
BulkOrderCreate(user, data) ==
    /\ Len(orders) < MaxOrders
    /\ LET ok == data.supplier_user_id \in SupplierUsers
           bulk_order == [status |-> "submitted", items |-> [k \in 1..Len(data.items) |-> BulkOrderItem(data.items[k])],
                          subtotal |-> 0, tax_amount |-> 0, shipping_amount |-> 0, total_amount |-> 0, advance_amount |-> 0,
                          shipped_date |-> Null,
                          status_logs |-> <<StatusLog(NoStatus, "submitted")>>]
       IN /\ orders' = IF ok THEN Append(orders, bulk_order) ELSE orders
          /\ last' = Plain("BulkOrderCreate", IF ok THEN 201 ELSE 500)
    /\ UNCHANGED <<batches, sales, nulls_last, requests>>

\* A supplier update let through in every status but shipped.
SupplierUntilShipped(status) == status # "shipped"

\* The statuses each update is legal in; before each, the rule that also
\* lets the update through one status off.
SupplierOrConfirmed(status) == status \in {"submitted", "supplier_reviewing", "supplier_confirmed"}

SupplierUpdateLegal(status) == status \in {"submitted", "supplier_reviewing"}

BuyerUnreviewed(status) == status \in {"supplier_confirmed", "buyer_reviewing"}

BuyerUpdateLegal(status) == status = "buyer_reviewing"

ShippingUnconfirmed(status) == status \in {"buyer_reviewing", "buyer_confirmed"}

ShippingUpdateLegal(status) == status = "buyer_confirmed"

\* timezone.now()
Now == 1

\* The items loop of the supplier update: a payload item without id is
\* skipped, one whose id is no item of the order raises; the others get the
\* confirmed quantity and the price, and count for the total when both are
\* non-zero.
RECURSIVE ConfirmItems(_, _, _)
ConfirmItems(items, items_data, total_amount) ==
    IF items_data = <<>> THEN [ok |-> TRUE, items |-> items, total_amount |-> total_amount]
    ELSE LET d == Head(items_data)
         IN IF d.id = Null THEN ConfirmItems(items, Tail(items_data), total_amount)
            ELSE IF d.id \notin DOMAIN items THEN [ok |-> FALSE, items |-> items, total_amount |-> total_amount]
            ELSE ConfirmItems([items EXCEPT ![d.id] = [@ EXCEPT !.quantity_confirmed = d.quantity_confirmed, !.unit_price = d.unit_price]], Tail(items_data), total_amount + (IF d.unit_price # 0 /\ d.quantity_confirmed # 0 THEN d.unit_price * d.quantity_confirmed ELSE 0))

\* BulkOrderSupplierUpdateSerializer.update: the status is saved first, then
\* the items, then the totals, then the log row; an exception in the items
\* loop leaves what was saved before it.
BulkOrderSupplierUpdate(order_id, data) ==
    /\ order_id \in OrderIds
    /\ LET instance == orders[order_id]
           legal == SupplierUpdateLegal(instance.status)
           c == ConfirmItems(instance.items, data.items, 0)
           saved == [instance EXCEPT !.status = "supplier_confirmed", !.items = c.items]
           done == [saved EXCEPT !.subtotal = c.total_amount, !.total_amount = c.total_amount + instance.tax_amount + instance.shipping_amount,
                                 !.status_logs = Append(@, StatusLog("supplier_reviewing", "supplier_confirmed"))]
       IN /\ orders' = IF ~legal THEN orders ELSE [orders EXCEPT ![order_id] = IF c.ok THEN done ELSE saved]
          /\ last' = Plain("BulkOrderSupplierUpdate", IF ~legal THEN 400 ELSE IF c.ok THEN 200 ELSE 500)
    /\ UNCHANGED <<batches, sales, nulls_last, requests>>

BulkOrderBuyerUpdate(order_id, data) ==
    /\ order_id \in OrderIds
    /\ LET instance == orders[order_id]
           legal == BuyerUpdateLegal(instance.status)
       IN /\ orders' = IF ~legal THEN orders ELSE [orders EXCEPT ![order_id] = [@ EXCEPT !.advance_amount = data.advance_amount, !.status = "buyer_confirmed", !.status_logs = Append(@, StatusLog("buyer_reviewing", "buyer_confirmed"))]]
          /\ last' = Plain("BulkOrderBuyerUpdate", IF legal THEN 200 ELSE 400)
    /\ UNCHANGED <<batches, sales, nulls_last, requests>>

BulkOrderShippingUpdate(order_id) ==
    /\ order_id \in OrderIds
    /\ LET instance == orders[order_id]
           legal == ShippingUpdateLegal(instance.status)
       IN /\ orders' = IF ~legal THEN orders ELSE [orders EXCEPT ![order_id] = [@ EXCEPT !.status = "shipped", !.shipped_date = Now, !.status_logs = Append(@, StatusLog("buyer_confirmed", "shipped"))]]
          /\ last' = Plain("BulkOrderShippingUpdate", IF legal THEN 200 ELSE 400)
    /\ UNCHANGED <<batches, sales, nulls_last, requests>>

\* The status a review opens: a submitted order goes to supplier_reviewing,
\* a supplier-confirmed one to buyer_reviewing.
Reviewing(status) == IF status = "submitted" THEN "supplier_reviewing" ELSE "buyer_reviewing"

BeginReview(order_id) ==
    /\ order_id \in OrderIds
    /\ orders[order_id].status \in {"submitted", "supplier_confirmed"}
    /\ orders' = [orders EXCEPT ![order_id] = [@ EXCEPT !.status = Reviewing(@), !.status_logs = Append(@, StatusLog(orders[order_id].status, Reviewing(orders[order_id].status)))]]
    /\ last' = Plain("BeginReview", 200)
    /\ UNCHANGED <<batches, sales, nulls_last, requests>>

\* The requests of the bulk order specification.
\* An item as a buyer asks for it, and one that comes with a confirmed
\* quantity and a price already, fields the item serializer lets a request
\* write.
Requested == [quantity_requested |-> 1, quantity_confirmed |-> 0, unit_price |-> 0]

Priced == [quantity_requested |-> 2, quantity_confirmed |-> 2, unit_price |-> 250]

OrderRequests == [supplier_user_id : UserIds, items : {<<>>, <<Requested>>, <<Requested, Priced>>}]

ConfirmedItems == [id : {Null, 1, 2, 3}, quantity_confirmed : {0, 2}, unit_price : {0, 250}]

SupplierUpdates == [items : {<<>>} \cup {<<i>> : i \in ConfirmedItems}]

BuyerUpdates == [advance_amount : {0, 100}]

InitBulk ==
    /\ batches = <<>>
    /\ sales = [i \in SaleIds |-> NoSale]
    /\ orders = <<>>
    /\ nulls_last = TRUE
    /\ last = NoRequest
    /\ requests = NoneInFlight

NextBulk ==
    \/ \E user \in Cashiers, data \in OrderRequests : BulkOrderCreate(user, data)
    \/ \E order_id \in 1..MaxOrders, data \in SupplierUpdates : BulkOrderSupplierUpdate(order_id, data)
    \/ \E order_id \in 1..MaxOrders, data \in BuyerUpdates : BulkOrderBuyerUpdate(order_id, data)
    \/ \E order_id \in 1..MaxOrders : BulkOrderShippingUpdate(order_id)
    \/ \E order_id \in 1..MaxOrders : BeginReview(order_id)

SpecBulk == InitBulk /\ [][NextBulk]_vars

\* C10: the status log of every bulk order is complete: a new order has one
\* row, every step that changes an order's status from a to b appends
\* exactly the row (a, b), and a step that does not change the status appends
\* none; so the rows are as many as the transitions and the i-th row names
\* the statuses before and after the i-th transition.
AuditComplete ==
    [][/\ \A o \in DOMAIN orders :
             IF orders'[o].status # orders[o].status
             THEN orders'[o].status_logs = Append(orders[o].status_logs, StatusLog(orders[o].status, orders'[o].status))
             ELSE orders'[o].status_logs = orders[o].status_logs
       /\ \A o \in DOMAIN orders' \ DOMAIN orders : orders'[o].status_logs = <<StatusLog(NoStatus, orders'[o].status)>>]_vars

CreationValidated ==
    [][\A user \in Cashiers, data \in OrderRequests : BulkOrderCreate(user, data) =>
          IF data.supplier_user_id \in SupplierUsers /\ data.items # <<>>
          THEN /\ last'.status = 201
               /\ Len(orders') = Len(orders) + 1
               /\ SubSeq(orders', 1, Len(orders)) = orders
               /\ orders'[Len(orders')].status = "submitted"
               /\ Len(orders'[Len(orders')].items) = Len(data.items)
               /\ orders'[Len(orders')].status_logs = <<StatusLog(NoStatus, "submitted")>>
          ELSE last'.status # 201 /\ orders' = orders]_vars

\* The value of the confirmed items of an order: price times confirmed
\* quantity, over the items that have both.
ConfirmedValue(items) == SumSeq([k \in 1..Len(items) |-> items[k].unit_price * items[k].quantity_confirmed])

\* C22: after a supplier update, whatever items its payload lists, the
\* order's subtotal is the value of all its confirmed items and its
\* total_amount is subtotal + tax_amount + shipping_amount.
TotalsMatchItems ==
    [][(last'.op = "BulkOrderSupplierUpdate" /\ last'.status = 200) =>
          \A o \in DOMAIN orders : orders'[o] # orders[o] =>
             /\ orders'[o].subtotal = ConfirmedValue(orders'[o].items)
             /\ orders'[o].total_amount = orders'[o].subtotal + orders'[o].tax_amount + orders'[o].shipping_amount]_vars

\* The place of a status in the workflow.
StatusRank(status) == CHOOSE k \in 1..6 : <<"submitted", "supplier_reviewing", "supplier_confirmed", "buyer_reviewing", "buyer_confirmed", "shipped">>[k] = status

----------------------------------------------------------------------------
(* Sale requests at the same time.  complete_sale and create_sale reduce a *)
(* batch of the snapshot in two statements, the load of the row and the    *)
(* save of the row with the new quantity; no statement locks the row, so   *)
(* the statements of two requests interleave.  Each request here sells one *)
(* item with a snapshot of one line; its Sale rows are its own and are     *)
(* left out.                                                               *)

RequestIds == 1..MaxRequests

\* The stock the requests meet: two batches of product 1, MaxQty units each.
RaceStock == <<InventoryItem(1, 1, 1, MaxQty, 1), InventoryItem(1, 1, 1, MaxQty, 2)>>

RaceLines == {AllocationLine(id, q) : id \in BatchIds(RaceStock), q \in 1..MaxQty}

\* A request that has not arrived yet.
Idle == [pc |-> "idle", batch |-> AllocationLine(Null, 0), quantity |-> 0, status |-> 0]

\* inventory_item = get_object_or_404(InventoryItem, id=batch['inventory_item_id']):
\* the request holds the row as it is now.
get_inventory_item(r, batch) ==
    /\ requests[r].pc = "idle"
    /\ requests' = [requests EXCEPT ![r] = [pc |-> "loaded", batch |-> batch, quantity |-> batches[batch.inventory_item_id].quantity, status |-> 0]]
    /\ UNCHANGED <<batches, sales, orders, nulls_last, last>>

\* if inventory_item.quantity >= allocated_qty: inventory_item.quantity -=
\* allocated_qty; inventory_item.save(), else raise: the test and the new
\* quantity come from the row as the request loaded it.
save_inventory_item(r) ==
    /\ requests[r].pc = "loaded"
    /\ LET id == requests[r].batch.inventory_item_id
           allocated_qty == requests[r].batch.allocated_quantity
           ok == requests[r].quantity >= allocated_qty
       IN /\ batches' = IF ok THEN [batches EXCEPT ![id].quantity = requests[r].quantity - allocated_qty] ELSE batches
          /\ requests' = [requests EXCEPT ![r].pc = "done", ![r].status = IF ok THEN 200 ELSE 500]
          /\ last' = Plain("create_sale", IF ok THEN 200 ELSE 500)
    /\ UNCHANGED <<sales, orders, nulls_last>>

InitRace ==
    /\ batches = RaceStock
    /\ sales = [i \in SaleIds |-> NoSale]
    /\ orders = <<>>
    /\ nulls_last = TRUE
    /\ last = NoRequest
    /\ requests = [r \in RequestIds |-> Idle]

NextRace ==
    \/ \E r \in RequestIds, batch \in RaceLines : get_inventory_item(r, batch)
    \/ \E r \in RequestIds : save_inventory_item(r)

SpecRace == InitRace /\ [][NextRace]_vars

\* The requests on batch i, and the units of those in R.
RequestsOn(i) == {r \in RequestIds : requests[r].batch.inventory_item_id = i}

UnitsAsked(R) == SumOver([r \in RequestIds |-> requests[r].batch.allocated_quantity], R)

\* C23: sale requests that reduce the same batch at the same time lose no
\* update: when all have ended, each batch holds its initial quantity less
\* the reductions of the requests that succeeded, and if the initial quantity
\* does not cover all the requests on a batch, one of them has failed.
NoLostUpdate ==
    (\A r \in RequestIds : requests[r].pc = "done") =>
        \A i \in BatchIds(RaceStock) :
           /\ batches[i].quantity = RaceStock[i].quantity - UnitsAsked({r \in RequestsOn(i) : requests[r].status = 200})
           /\ UnitsAsked(RequestsOn(i)) > RaceStock[i].quantity => \E r \in RequestsOn(i) : requests[r].status # 200

====
